---------------------------- MODULE Spec2Model ----------------------------
(***************************************************************************)
(* State-machine model of src/src/components/webm-converter.tsx: the       *)
(* WebmConverter component's state, its UI handlers and the async          *)
(* runConversion pipeline.  One action is one JavaScript job: the code     *)
(* that runs between two awaits (or one event handler), executed           *)
(* atomically as the single-threaded event loop does.                      *)
(*                                                                         *)
(* Conventions: a nullable number is NULL (-1) when null/undefined/NaN;    *)
(* a nullable string is "null"; a nullable object is a sequence of length  *)
(* 0 (null) or 1.  Times are integers in microseconds.                     *)
(***************************************************************************)
EXTENDS Integers, Sequences, FiniteSets, TLC

VARIABLES
    \* React state of the component (lines 100-113)
    inputFile, inputUrl, outputUrl, outputSize, duration, isConverting,
    progress, status, error, quality, speed, includeAudio, isSupported,
    \* the browser: which WebCodecs capabilities exist (lines 72-90)
    platform,
    \* runConversion: activations in flight, position of the latest one,
    \* its closure and locals (lines 173-558)
    active, pc, run,
    \* the hidden <video> element, its captured tracks and their readers
    media,
    \* the environment: files selected or cleared since the latest run began
    fileEvents

uiVars == <<inputFile, inputUrl, outputUrl, outputSize, duration, isConverting,
            progress, status, error, quality, speed, includeAudio, isSupported>>
vars == <<inputFile, inputUrl, outputUrl, outputSize, duration, isConverting,
          progress, status, error, quality, speed, includeAudio, isSupported,
          platform, active, pc, run, media, fileEvents>>

NULL == -1

---------------------------------------------------------------------------
(* Bounds of the model and the environment's input sets.                  *)

\* media clock positions 0..MaxTime, one second apart
MaxTime == 2
\* files selected or cleared between the start of one run and the next
MaxFileEvents == 1
\* capture-clock origins of the two tracks, in seconds
VideoTsOrigin == 3
AudioTsOrigin == 1

Files == {"a.webm", "b.bin"}

\* what videoElement.duration may read for a file, in seconds; NULL when it
\* is not finite (a stream recorded without a duration header reads
\* Infinity, or 0 before any data is known)
FileDurations(f) == IF f = "a.webm" THEN {2} ELSE {NULL, 0}

---------------------------------------------------------------------------
(* Presets, lines 27-55.  Scales and GOP seconds are kept as exact         *)
(* fractions: bitrateScale = scalePct / 100, gopSeconds = gopTenths / 10.  *)

qualityPresets ==
    [high     |-> [id |-> "high", scalePct |-> 135],
     balanced |-> [id |-> "balanced", scalePct |-> 100],
     small    |-> [id |-> "small", scalePct |-> 70]]

speedPresets ==
    [fast     |-> [id |-> "fast", latencyMode |-> "realtime", gopTenths |-> 15],
     standard |-> [id |-> "standard", latencyMode |-> "realtime", gopTenths |-> 25],
     quality  |-> [id |-> "quality", latencyMode |-> "quality", gopTenths |-> 40]]

QualityIds == {"high", "balanced", "small"}
SpeedIds == {"fast", "standard", "quality"}

---------------------------------------------------------------------------
(* JavaScript helpers.                                                     *)

\* Math.round(n / d) for n >= 0, d > 0: halves round up
Round(n, d) == (2 * n + d) \div (2 * d)

Max(a, b) == IF a >= b THEN a ELSE b
Min(a, b) == IF a <= b THEN a ELSE b

\* truthiness of a nullable number: undefined, null, NaN and 0 are falsy
Truthy(x) == x # NULL /\ x # 0

\* a ?? b on nullable numbers
Coalesce(a, b) == IF a = NULL THEN b ELSE a

\* a || b on nullable numbers
OrElse(a, b) == IF Truthy(a) THEN a ELSE b

\* supportsVideoCodecs(), lines 81-85, and supportsAudioCodecs(), 87-90
supportsVideoCodecs == platform.videoCodecs

\* an audio capability taken for granted
supportsAudioCodecsAssumed == TRUE

\* supportsAudioCodecs, lines 87-90
supportsAudioCodecs == platform.audioCodecs

\* a flooring to even that forgets the minimum of 2
evenDimensionUnclamped(value) == (value \div 2) * 2

\* evenDimension, line 92
evenDimension(value) == Max(2, (value \div 2) * 2)

---------------------------------------------------------------------------
(* ParameterDeriver: lines 265-274 and 473.                                *)

FallbackWidth == 1280
FallbackHeight == 720
DefaultFrameRate == 30
MinBaseBitrate == 1500000
\* the density factor 0.07 of line 271, as hundredths
DensityPct == 7

\* videoSettings.width ?? (videoElement.videoWidth || 0), lines 266-267
SourceDimension(settingsValue, elementValue) ==
    Coalesce(settingsValue, OrElse(elementValue, 0))

\* evenDimension(widthSource || 1280), lines 268-269
DeriveDimension(sourceValue, fallback) ==
    evenDimension(OrElse(sourceValue, fallback))

\* a base bitrate without the floor of 1,500,000
baseBitrateUnfloored(width, height, frameRate) ==
    Round(width * height * frameRate * DensityPct, 100)

\* line 271
baseBitrate(width, height, frameRate) ==
    Max(MinBaseBitrate, Round(width * height * frameRate * DensityPct, 100))

\* line 272
videoBitrate(width, height, frameRate, q) ==
    Round(baseBitrate(width, height, frameRate) * qualityPresets[q].scalePct, 100)

\* lines 273-274
audioBitrate(q) ==
    IF q = "high" THEN 192000 ELSE IF q = "small" THEN 96000 ELSE 128000

\* a keyframe interval that truncates instead of rounding
keyIntervalTruncated(frameRate, s) ==
    Max(1, (frameRate * speedPresets[s].gopTenths) \div 10)

\* line 473
keyInterval(frameRate, s) ==
    Max(1, Round(frameRate * speedPresets[s].gopTenths, 10))

---------------------------------------------------------------------------
(* CapabilityNegotiator: lines 334-377.                                    *)

codecCandidates == <<"avc1.42E01E", "avc1.4D401E", "avc1.640028", "avc1.42001E">>

NumCandidates == 4 * Len(codecCandidates)

\* the i-th config pushed by the loop of lines 343-364; a member the
\* candidate does not carry is "absent"
videoConfigCandidate(i, base, latencyMode) ==
    LET codec == codecCandidates[((i - 1) \div 4) + 1]
        variant == (i - 1) % 4
    IN  [codec |-> codec,
         width |-> base.width,
         height |-> base.height,
         bitrate |-> base.bitrate,
         framerate |-> base.framerate,
         latencyMode |-> IF variant \in {0, 1} THEN latencyMode ELSE "absent",
         hardwareAcceleration |->
             IF variant \in {0, 2} THEN "prefer-hardware" ELSE "absent"]

videoConfigCandidates(base, latencyMode) ==
    [i \in 1..NumCandidates |-> videoConfigCandidate(i, base, latencyMode)]

\* VideoEncoder.isConfigSupported answers for one candidate (line 368)
\* "unsupported", "supported" (without a config) or "normalized" (supported,
\* with the platform's normalized config).

\* support.config as the platform normalizes it: absent members take the
\* WebCodecs defaults
PlatformConfig(candidate) ==
    [candidate EXCEPT
        !.latencyMode = IF @ = "absent" THEN "quality" ELSE @,
        !.hardwareAcceleration = IF @ = "absent" THEN "no-preference" ELSE @]

\* platforms as support functions over the candidate list: every
\* candidate from the k-th on is answered with one kind ...
SupportFrom(k, answer) ==
    [i \in 1..NumCandidates |-> IF i < k THEN "unsupported" ELSE answer]

\* ... or only the candidates of a set are supported, the last of them
\* with a normalized config
SupportOnly(S, last) ==
    [i \in 1..NumCandidates |->
        IF i = last THEN "normalized"
        ELSE IF i \in S THEN "supported" ELSE "unsupported"]

\* the browsers of the model: their capabilities (lines 72-90) and what
\* VideoEncoder.isConfigSupported answers
PipelinePlatforms ==
    {[videoCodecs |-> FALSE, audioCodecs |-> FALSE,
      videoSupport |-> SupportFrom(NumCandidates + 1, "supported")],
     [videoCodecs |-> TRUE, audioCodecs |-> FALSE,
      videoSupport |-> SupportFrom(1, "supported")],
     [videoCodecs |-> TRUE, audioCodecs |-> TRUE,
      videoSupport |-> SupportOnly({2, 3}, 3)],
     [videoCodecs |-> TRUE, audioCodecs |-> TRUE,
      videoSupport |-> SupportFrom(NumCandidates + 1, "supported")]}

\* the browser of the configuration runs
ConfigPlatforms ==
    {[videoCodecs |-> TRUE, audioCodecs |-> TRUE,
      videoSupport |-> SupportOnly({}, 2)]}

Platforms ==
    PipelinePlatforms \cup
    {[videoCodecs |-> TRUE, audioCodecs |-> TRUE,
      videoSupport |-> SupportFrom(1, "normalized")],
     [videoCodecs |-> TRUE, audioCodecs |-> TRUE,
      videoSupport |-> SupportOnly({7, 9}, 9)],
     [videoCodecs |-> TRUE, audioCodecs |-> TRUE,
      videoSupport |-> SupportOnly({}, 6)],
     [videoCodecs |-> TRUE, audioCodecs |-> TRUE,
      videoSupport |-> SupportOnly({}, NumCandidates)]}

\* support.supported, line 369
Supported(answer) == answer # "unsupported"

\* a choice that ignores the platform's normalized config
ChosenCandidate(answer, candidate) == candidate

\* support.config ?? candidate, line 370
ChosenConfig(answer, candidate) ==
    IF answer = "normalized" THEN PlatformConfig(candidate) ELSE candidate

\* a check of the sample rate alone
SampleRateKnown(sampleRate, channels) == Truthy(sampleRate)

\* !audioSampleRate || !audioChannels negated, lines 314, 324, 379, 381, 406
AudioAttributesKnown(sampleRate, channels) ==
    Truthy(sampleRate) /\ Truthy(channels)

---------------------------------------------------------------------------
(* ProgressTracker: updateProgress, lines 452-464.                         *)

\* progressOffsetUs after a call with timestampUs (NULL: no argument)
ProgressOffsetAfter(offset, timestampUs) ==
    IF timestampUs # NULL /\ offset = NULL THEN timestampUs ELSE offset

\* timeSeconds of lines 455-461, in microseconds
ProgressTimeUs(offset, timestampUs, currentTimeUs) ==
    IF timestampUs # NULL
    THEN Max(0, timestampUs - ProgressOffsetAfter(offset, timestampUs))
    ELSE currentTimeUs

\* pct, line 462
ProgressPct(timeUs, durationSeconds) ==
    Min(100, Round(timeUs * 100, durationSeconds * 1000000))

\* an updater that reports the latest percentage instead of the maximum
NextProgressLatest(prev, pct) == pct

\* progress ?? 0: the value the bar and the label show, lines 762 and 768
ProgressValue(p) == Coalesce(p, 0)

\* the setProgress updater of line 463
NextProgress(prev, pct) == Max(Coalesce(prev, 0), pct)

---------------------------------------------------------------------------
(* The state after construction and the mount effect of lines 125-134.     *)

\* runConversion's closure and locals before any run
NoRun ==
    [file |-> "null", quality |-> "balanced", speed |-> "standard",
     includeAudio |-> FALSE, duration |-> NULL,
     shouldRevokeWorkingUrl |-> FALSE, workingUrlRevoked |-> FALSE,
     durationSeconds |-> NULL,
     widthSource |-> NULL, heightSource |-> NULL,
     width |-> NULL, height |-> NULL, frameRate |-> NULL,
     videoBitrate |-> NULL, audioBitrate |-> NULL,
     includeAudioTrack |-> FALSE, audioReader |-> FALSE,
     bufferedAudio |-> <<>>,
     audioSampleRate |-> NULL, audioChannels |-> NULL,
     videoProbes |-> 0, lastAnswer |-> "none", chosenVideoConfig |-> <<>>,
     audioSupport |-> "none", audioEnabled |-> FALSE,
     audioEncoderConfig |-> <<>>,
     muxer |-> <<>>, videoEncoder |-> "none", audioEncoder |-> "none",
     progressOffsetUs |-> NULL, progressTimer |-> FALSE,
     keyInterval |-> NULL, videoFrameCount |-> 0,
     \* the keyFrame option of the latest video submission (line 482) and
     \* the number of units read from each reader and not closed yet
     \* (lines 316, 478-484, 500-505)
     videoKeyFlag |-> "none", videoOpen |-> 0, audioOpen |-> 0,
     \* the timestamp of the latest unit submitted to each encoder
     videoLastTs |-> NULL, audioLastTs |-> NULL,
     \* videoMeta / audioMeta hold metadata (lines 415, 433), the units each
     \* encoder has accepted and not put out yet, and whether an output
     \* callback has thrown (lines 422, 441)
     videoMeta |-> <<>>, audioMeta |-> <<>>,
     videoPending |-> 0, audioPending |-> 0, outputThrew |-> FALSE,
     \* an encoder's error callback has logged an error (lines 427, 446)
     errorLogged |-> FALSE,
     videoTask |-> "none", audioTask |-> "none",
     terminalWrites |-> 0]

\* no hidden <video> element
NoMedia ==
    [element |-> FALSE, playback |-> "none", time |-> 0,
     videoTrack |-> "none", audioTrack |-> "none",
     lastVideoTime |-> NULL, lastAudioTime |-> NULL]

InitWith(PlatformSet) ==
    /\ platform \in PlatformSet
    /\ fileEvents = 0
    /\ inputFile = "null"
    /\ inputUrl = "null"
    /\ outputUrl = "null"
    /\ outputSize = NULL
    /\ duration = NULL
    /\ isConverting = FALSE
    /\ progress = NULL
    /\ quality = "balanced"
    /\ speed = "standard"
    /\ includeAudio = TRUE
    /\ isSupported = supportsVideoCodecs
    /\ status = IF supportsVideoCodecs THEN "Ready" ELSE "WebCodecs not available"
    /\ error = IF supportsVideoCodecs THEN "null" ELSE "WebCodecs unavailable"
    /\ active = 0
    /\ pc = "idle"
    /\ run = NoRun
    /\ media = NoMedia

Init == InitWith(PipelinePlatforms)

---------------------------------------------------------------------------
(* UI handlers.                                                            *)

\* file.type === "video/webm" || name ends with ".webm", lines 145-146
looksLikeWebm(f) == f = "a.webm"

\* handleFile, lines 142-156 (with resetOutput, lines 136-140)
handleFile(f) ==
    /\ error' = IF looksLikeWebm(f) THEN "null" ELSE "not WebM"
    /\ outputUrl' = "null"
    /\ outputSize' = NULL
    /\ progress' = NULL
    /\ inputFile' = f
    /\ inputUrl' = f
    /\ status' = "Ready to convert"
    /\ UNCHANGED <<duration, isConverting, quality, speed, includeAudio,
                   isSupported, platform, active, pc, run, media>>

\* handleClear, lines 560-567
handleClear ==
    /\ inputFile # "null"
    /\ inputFile' = "null"
    /\ inputUrl' = "null"
    /\ outputUrl' = "null"
    /\ outputSize' = NULL
    /\ progress' = NULL
    /\ duration' = NULL
    /\ status' = "Ready"
    /\ error' = "null"
    /\ UNCHANGED <<isConverting, quality, speed, includeAudio, isSupported,
                   platform, active, pc, run, media>>

\* The user picks or clears a file: any number of times before the first
\* run, and up to MaxFileEvents times between the start of one run and
\* the start of the next.
fileEventCounted ==
    /\ run.file = "null" \/ fileEvents < MaxFileEvents
    /\ fileEvents' = IF run.file = "null" THEN 0 ELSE fileEvents + 1

fileChosen(f) == fileEventCounted /\ handleFile(f)

clearClicked == fileEventCounted /\ handleClear

\* onLoadedMetadata of the preview <video>, lines 569-574
onLoadedMetadata ==
    /\ inputUrl # "null"
    /\ \E d \in FileDurations(inputUrl) :
        /\ d # NULL
        /\ duration # d
        /\ duration' = d
    /\ UNCHANGED <<inputFile, inputUrl, outputUrl, outputSize, isConverting,
                   progress, status, error, quality, speed, includeAudio,
                   isSupported, platform, fileEvents, active, pc, run, media>>

\* The preset buttons and the audio checkbox, lines 663, 699, 733.  A run
\* reads the values its closure captured at the click (line 558), so a
\* change made during a run has the effect of the same change made right
\* after it; the model takes it then.
setQuality(q) ==
    /\ active = 0
    /\ q # quality
    /\ quality' = q
    /\ UNCHANGED <<inputFile, inputUrl, outputUrl, outputSize, duration,
                   isConverting, progress, status, error, speed, includeAudio,
                   isSupported, platform, fileEvents, active, pc, run, media>>

setSpeed(s) ==
    /\ active = 0
    /\ s # speed
    /\ speed' = s
    /\ UNCHANGED <<inputFile, inputUrl, outputUrl, outputSize, duration,
                   isConverting, progress, status, error, quality, includeAudio,
                   isSupported, platform, fileEvents, active, pc, run, media>>

setIncludeAudio(b) ==
    /\ active = 0
    /\ b # includeAudio
    /\ includeAudio' = b
    /\ UNCHANGED <<inputFile, inputUrl, outputUrl, outputSize, duration,
                   isConverting, progress, status, error, quality, speed,
                   isSupported, platform, fileEvents, active, pc, run, media>>

---------------------------------------------------------------------------
(* The environment's inputs to one run.                                    *)

\* videoTrack.getSettings() with videoElement.videoWidth / videoHeight
SourceDescriptor(sw, sh, fr, vw, vh) ==
    [settingsWidth |-> sw, settingsHeight |-> sh, frameRate |-> fr,
     videoWidth |-> vw, videoHeight |-> vh]

\* the source of the full pipeline: an odd-sized capture at one frame per
\* second
RunSources == {SourceDescriptor(641, 361, 1, 641, 361)}

\* the sources of the configuration runs: reported, odd, degenerate and
\* unavailable sizes <<width, height>> and frame rates; the element's own
\* size is read only when the track reports none (lines 265-266)
SourceSizes ==
    {<<NULL, NULL>>, <<0, 0>>, <<1, 1>>, <<2, 3>>, <<641, 360>>,
     <<1920, 1080>>}
ElementSizes(s) == IF s = <<NULL, NULL>> THEN {<<0, 0>>, <<853, 1>>} ELSE {s}
SourceFrameRates == {NULL, 0, 1, 30}
ConfigSources ==
    UNION {{SourceDescriptor(s[1], s[2], fr, e[1], e[2]) :
                fr \in SourceFrameRates, e \in ElementSizes(s)} :
           s \in SourceSizes}

\* audioTrack.getSettings(): both attributes or neither ...
RunAudioSettings ==
    {[sampleRate |-> 48000, channelCount |-> 2],
     [sampleRate |-> NULL, channelCount |-> NULL]}

\* ... or only one of them, or a zero
ConfigAudioSettings ==
    RunAudioSettings \cup
    {[sampleRate |-> 48000, channelCount |-> NULL],
     [sampleRate |-> NULL, channelCount |-> 2],
     [sampleRate |-> 0, channelCount |-> 2]}

\* the attributes an AudioData pulled for probing may carry
SampleAttributes ==
    {[sampleRate |-> 48000, numberOfChannels |-> 2],
     [sampleRate |-> 48000, numberOfChannels |-> 0]}

\* stream.getAudioTracks()[0]: absent (<<>>) or a track with its settings
AudioTrackOptions(wanted, AudioSettings) ==
    IF wanted
    THEN {<<>>} \cup {<<a>> : a \in AudioSettings}
    ELSE {<<>>, <<[sampleRate |-> 48000, channelCount |-> 2]>>}

\* frame.timestamp / data.timestamp of a unit captured at clock position t
VideoTimestampUs(t) == (VideoTsOrigin + t) * 1000000
AudioTimestampUs(t) == (AudioTsOrigin + t) * 1000000

\* videoElement.currentTime at clock position t, in microseconds
CurrentTimeUs(t) == t * 1000000

---------------------------------------------------------------------------
(* runConversion, lines 173-558.                                           *)

\* a button that stays enabled while a run is in flight
convertDisabledIgnoringRun == inputFile = "null" \/ ~isSupported

\* the button's disabled attribute, line 745
convertDisabled == inputFile = "null" \/ isConverting \/ ~isSupported

\* finally, lines 546-557: the timer is cleared, the element is paused,
\* emptied and removed, the working URL revoked, isConverting reset
Finally(r, m) ==
    /\ run' = [r EXCEPT !.progressTimer = FALSE,
                        !.workingUrlRevoked = r.shouldRevokeWorkingUrl]
    /\ media' = [m EXCEPT !.element = FALSE, !.playback = "cleared"]
    /\ isConverting' = FALSE
    /\ active' = active - 1
    /\ pc' = "idle"

\* catch, lines 540-545, followed by finally
Catch(r, m, message) ==
    /\ error' = message
    /\ status' = "Conversion failed"
    /\ Finally([r EXCEPT !.terminalWrites = @ + 1], m)

\* the click on Convert: lines 173-234, up to the first await
runConversion ==
    /\ ~convertDisabled
    /\ IF ~supportsVideoCodecs
       THEN /\ error' = "WebCodecs unavailable"
            /\ UNCHANGED <<outputUrl, outputSize, isConverting, progress,
                           status, active, pc, run, media, fileEvents>>
       ELSE IF includeAudio /\ ~supportsAudioCodecs
       THEN /\ error' = "Audio WebCodecs unavailable"
            /\ UNCHANGED <<outputUrl, outputSize, isConverting, progress,
                           status, active, pc, run, media, fileEvents>>
       ELSE /\ error' = "null"
            /\ fileEvents' = 0
            /\ isConverting' = TRUE
            \* setProgress(0) then resetOutput(): the last write stands
            /\ progress' = NULL
            /\ outputUrl' = "null"
            /\ outputSize' = NULL
            /\ status' = "Preparing codecs"
            /\ active' = active + 1
            /\ pc' = "import"
            /\ run' = [NoRun EXCEPT !.file = inputFile,
                                    !.quality = quality,
                                    !.speed = speed,
                                    !.includeAudio = includeAudio,
                                    !.duration = duration,
                                    !.shouldRevokeWorkingUrl = (inputUrl = "null")]
            /\ media' = [NoMedia EXCEPT !.element = TRUE, !.playback = "loading"]
    /\ UNCHANGED <<inputFile, inputUrl, duration, quality, speed, includeAudio,
                   isSupported, platform>>

\* await import("mp4-muxer") settles, line 234
importResolved ==
    /\ pc = "import"
    /\ pc' = "metadata"
    /\ UNCHANGED <<uiVars, platform, fileEvents, active, run, media>>

importRejected ==
    /\ pc = "import"
    /\ Catch(run, media, "import failed")
    /\ UNCHANGED <<inputFile, inputUrl, outputUrl, outputSize, duration,
                   progress, quality, speed, includeAudio, isSupported, platform, fileEvents>>

\* waitForMetadata rejects, lines 212-215
metadataError ==
    /\ pc = "metadata"
    /\ Catch(run, media, "Failed to load video metadata.")
    /\ UNCHANGED <<inputFile, inputUrl, outputUrl, outputSize, duration,
                   progress, quality, speed, includeAudio, isSupported, platform, fileEvents>>

\* waitForMetadata resolves; lines 237-309 run up to await play()
loadedMetadata(Sources, AudioSettings) ==
    /\ pc = "metadata"
    /\ \E src \in Sources, hasVideo \in BOOLEAN,
          audio \in AudioTrackOptions(run.includeAudio, AudioSettings),
          elementDuration \in FileDurations(run.file) :
        LET durationSeconds ==
                IF elementDuration # NULL THEN elementDuration ELSE run.duration
            widthSource == SourceDimension(src.settingsWidth, src.videoWidth)
            heightSource == SourceDimension(src.settingsHeight, src.videoHeight)
            width == DeriveDimension(widthSource, FallbackWidth)
            height == DeriveDimension(heightSource, FallbackHeight)
            frameRate == Coalesce(src.frameRate, DefaultFrameRate)
            includeAudioTrack == run.includeAudio /\ audio # <<>>
            r == [run EXCEPT
                    !.durationSeconds = durationSeconds,
                    !.widthSource = widthSource,
                    !.heightSource = heightSource,
                    !.width = width,
                    !.height = height,
                    !.frameRate = frameRate,
                    !.videoBitrate = videoBitrate(width, height, frameRate, run.quality),
                    !.audioBitrate = audioBitrate(run.quality),
                    !.includeAudioTrack = includeAudioTrack,
                    !.audioReader = includeAudioTrack,
                    !.audioSampleRate =
                        IF includeAudioTrack THEN audio[1].sampleRate ELSE NULL,
                    !.audioChannels =
                        IF includeAudioTrack THEN audio[1].channelCount ELSE NULL]
            m == [media EXCEPT
                    !.videoTrack = IF hasVideo THEN "live" ELSE "none",
                    !.audioTrack = IF audio # <<>> THEN "live" ELSE "none"]
        IN  /\ duration' = IF Truthy(durationSeconds) /\ ~Truthy(run.duration)
                           THEN durationSeconds ELSE duration
            /\ IF ~hasVideo
               THEN /\ Catch([run EXCEPT !.durationSeconds = durationSeconds], m,
                             "No video track found in this file.")
               ELSE /\ status' = "Starting playback"
                    /\ run' = r
                    /\ media' = m
                    /\ pc' = "play"
                    /\ UNCHANGED <<error, isConverting, active>>
    /\ UNCHANGED <<inputFile, inputUrl, outputUrl, outputSize, progress,
                   quality, speed, includeAudio, isSupported, platform, fileEvents>>

\* an updateProgress without the early return of line 454: dividing by an
\* unknown duration yields Infinity, which Math.min caps at 100
updateProgressUnguarded(r, prev, timestampUs, t) ==
    IF ~Truthy(r.durationSeconds)
    THEN NextProgress(prev, 100)
    ELSE NextProgress(prev,
            ProgressPct(ProgressTimeUs(r.progressOffsetUs, timestampUs,
                                       CurrentTimeUs(t)),
                        r.durationSeconds))

\* updateProgress(timestampUs), lines 453-464: the locals it leaves ...
updateProgressLocals(r, timestampUs) ==
    IF ~Truthy(r.durationSeconds)
    THEN r
    ELSE [r EXCEPT !.progressOffsetUs = ProgressOffsetAfter(@, timestampUs)]

\* ... and the progress it reports, at clock position t
updateProgress(r, prev, timestampUs, t) ==
    IF ~Truthy(r.durationSeconds)
    THEN prev
    ELSE NextProgress(prev,
            ProgressPct(ProgressTimeUs(r.progressOffsetUs, timestampUs,
                                       CurrentTimeUs(t)),
                        r.durationSeconds))

\* audio given up with the probing sample left as it is
dropAudioKeepingSample(r) == [r EXCEPT !.includeAudioTrack = FALSE]

\* lines 325-329: includeAudioTrack = false, bufferedAudio?.close(),
\* bufferedAudio = null
dropAudio(r) ==
    [r EXCEPT !.includeAudioTrack = FALSE,
              !.bufferedAudio = <<>>,
              !.audioOpen = @ - Len(r.bufferedAudio)]

\* lines 324-368: audio without attributes is dropped, the candidates are
\* built and the first isConfigSupported call is awaited
startNegotiation(r, m) ==
    LET known == AudioAttributesKnown(r.audioSampleRate, r.audioChannels)
        dropped == r.includeAudioTrack /\ ~known
    IN  /\ status' = "Configuring encoders"
        /\ run' = IF dropped THEN dropAudio(r) ELSE r
        /\ media' = m
        /\ pc' = "probeVideo"

\* await videoElement.play() settles, lines 308-322
playRejected ==
    /\ pc = "play"
    /\ Catch(run, media, "Playback was blocked.")
    /\ UNCHANGED <<inputFile, inputUrl, outputUrl, outputSize, duration,
                   progress, quality, speed, includeAudio, isSupported, platform, fileEvents>>

playResolved ==
    /\ pc = "play"
    /\ LET m == [media EXCEPT !.playback = "playing"]
       IN  IF /\ run.includeAudioTrack
              /\ run.audioReader
              /\ ~AudioAttributesKnown(run.audioSampleRate, run.audioChannels)
           THEN /\ status' = "Analyzing audio"
                /\ pc' = "analyzeAudio"
                /\ media' = m
                /\ UNCHANGED run
           ELSE startNegotiation(run, m)
    /\ UNCHANGED <<inputFile, inputUrl, outputUrl, outputSize, duration,
                   isConverting, progress, error, quality, speed, includeAudio,
                   isSupported, platform, fileEvents, active>>

\* await audioReader.read() settles with a sample, lines 316-321
analyzedSample ==
    /\ pc = "analyzeAudio"
    /\ media.playback = "playing"
    /\ media.audioTrack = "live"
    /\ \E attrs \in SampleAttributes :
        LET sample == [sampleRate |-> attrs.sampleRate,
                       numberOfChannels |-> attrs.numberOfChannels,
                       timestamp |-> AudioTimestampUs(media.time)]
        IN  startNegotiation(
                [run EXCEPT !.bufferedAudio = <<sample>>,
                            !.audioOpen = @ + 1,
                            !.audioSampleRate = sample.sampleRate,
                            !.audioChannels = sample.numberOfChannels],
                [media EXCEPT !.lastAudioTime = media.time])
    /\ UNCHANGED <<inputFile, inputUrl, outputUrl, outputSize, duration,
                   isConverting, progress, error, quality, speed, includeAudio,
                   isSupported, platform, fileEvents, active>>

\* ... or with done: the track ended before it produced a sample
analyzedDone ==
    /\ pc = "analyzeAudio"
    /\ media.playback \in {"ended", "error"}
    /\ startNegotiation(run, media)
    /\ UNCHANGED <<inputFile, inputUrl, outputUrl, outputSize, duration,
                   isConverting, progress, error, quality, speed, includeAudio,
                   isSupported, platform, fileEvents, active>>

\* an audio task that goes straight to its loop
bufferedSkipped(buffered) == FALSE

\* if (bufferedAudio), line 493
hasBuffered(buffered) == buffered # <<>>

\* lines 396-517: the muxer and the encoders are created, the timer and
\* the two tasks are started (each runs to its first await), and the run
\* waits for the element's ended / error event
startEncoding(r, m) ==
    LET known == AudioAttributesKnown(r.audioSampleRate, r.audioChannels)
        muxer == [video |-> [codec |-> "avc", width |-> r.width, height |-> r.height],
                  audio |-> IF r.audioEnabled /\ known
                            THEN <<[codec |-> "aac",
                                    sampleRate |-> r.audioSampleRate,
                                    numberOfChannels |-> r.audioChannels]>>
                            ELSE <<>>,
                  videoChunks |-> 0, audioChunks |-> 0,
                  \* the metadata passed with the latest chunk of each track
                  videoPaired |-> <<>>, audioPaired |-> <<>>,
                  finalized |-> FALSE]
        hasAudioEncoder == r.audioEnabled /\ r.audioEncoderConfig # <<>>
        runsAudio == r.audioEnabled /\ r.audioReader /\ hasAudioEncoder
        encodesBuffered == runsAudio /\ hasBuffered(r.bufferedAudio)
        r1 == [r EXCEPT
                 !.muxer = <<muxer>>,
                 !.videoEncoder = "configured",
                 !.audioEncoder = IF hasAudioEncoder THEN "configured" ELSE "none",
                 !.progressOffsetUs = NULL,
                 !.progressTimer = Truthy(r.durationSeconds),
                 !.keyInterval = keyInterval(r.frameRate, r.speed),
                 !.videoFrameCount = 0,
                 !.videoTask = "reading",
                 !.audioTask = IF runsAudio THEN "reading" ELSE "done"]
        r2 == IF encodesBuffered
              THEN [updateProgressLocals(r1, r.bufferedAudio[1].timestamp)
                        EXCEPT !.bufferedAudio = <<>>,
                               !.audioLastTs = r.bufferedAudio[1].timestamp,
                               !.audioPending = @ + 1,
                               !.audioOpen = @ - 1]
              ELSE r1
    IN  /\ status' = IF r.audioEnabled THEN "Encoding video + audio"
                                       ELSE "Encoding video"
        /\ progress' = IF encodesBuffered
                       THEN updateProgress(r1, progress,
                                           r.bufferedAudio[1].timestamp, m.time)
                       ELSE progress
        /\ run' = r2
        /\ media' = m
        /\ pc' = "encoding"

\* a negotiation whose missing result goes unnoticed
negotiationNeverFails(chosen) == FALSE

\* if (!chosenVideoConfig) throw, line 375
negotiationFailed(chosen) == chosen = <<>>

\* await VideoEncoder.isConfigSupported(candidate) settles, lines 367-394
probedVideo ==
    /\ pc = "probeVideo"
    /\  LET i == run.videoProbes + 1
            answer == platform.videoSupport[i]
            base == [width |-> run.width, height |-> run.height,
                     bitrate |-> run.videoBitrate, framerate |-> run.frameRate]
            candidate ==
                videoConfigCandidates(base, speedPresets[run.speed].latencyMode)[i]
            chosen == IF Supported(answer)
                      THEN <<ChosenConfig(answer, candidate)>> ELSE <<>>
            r == [run EXCEPT !.videoProbes = i, !.lastAnswer = answer,
                             !.chosenVideoConfig = chosen]
            audioEnabled ==
                /\ r.includeAudioTrack
                /\ AudioAttributesKnown(r.audioSampleRate, r.audioChannels)
            config == [codec |-> "mp4a.40.2",
                       sampleRate |-> r.audioSampleRate,
                       numberOfChannels |-> r.audioChannels,
                       bitrate |-> r.audioBitrate]
        IN  IF ~Supported(answer) /\ i < NumCandidates
            THEN /\ run' = r
                 /\ UNCHANGED <<progress, status, error, isConverting, active,
                                pc, media>>
            ELSE IF negotiationFailed(chosen)
            THEN /\ Catch(r, media, "H.264 encoding is not supported in this browser.")
                 /\ UNCHANGED progress
            ELSE IF audioEnabled
            THEN /\ run' = [r EXCEPT !.audioEnabled = TRUE,
                                     !.audioEncoderConfig = <<config>>]
                 /\ pc' = "probeAudio"
                 /\ UNCHANGED <<progress, status, error, isConverting, active,
                                media>>
            ELSE /\ startEncoding([r EXCEPT !.audioEnabled = FALSE], media)
                 /\ UNCHANGED <<error, isConverting, active>>
    /\ UNCHANGED <<inputFile, inputUrl, outputUrl, outputSize, duration,
                   quality, speed, includeAudio, isSupported, platform, fileEvents>>

\* an unsupported answer that is noted but leaves audio enabled
audioUnsupportedKeepsAudio(r) == [r EXCEPT !.audioSupport = "unsupported"]

\* if (!audioSupport.supported): audio is disabled, lines 389-393
audioUnsupported(r) ==
    [r EXCEPT !.audioSupport = "unsupported",
              !.audioEnabled = FALSE,
              !.audioEncoderConfig = <<>>]

\* await AudioEncoder.isConfigSupported(audioEncoderConfig) settles, 388-394
probedAudio ==
    /\ pc = "probeAudio"
    /\ \E supported \in BOOLEAN :
        startEncoding(
            IF supported
            THEN [run EXCEPT !.audioSupport = "supported"]
            ELSE audioUnsupported(run),
            media)
    /\ UNCHANGED <<inputFile, inputUrl, outputUrl, outputSize, duration,
                   isConverting, error, quality, speed, includeAudio,
                   isSupported, platform, fileEvents, active>>

---------------------------------------------------------------------------
(* Encoding: the two track tasks, the timer and the element's events.      *)

VideoQueueThreshold == 12
AudioQueueThreshold == 20

\* encoder.encodeQueueSize as the task may find it after a submission
QueueSizes(threshold) == {0, threshold, threshold + 1}

\* a yield taken as soon as the queue reaches the threshold
needsBreathingRoomAtThreshold(queueSize, threshold) == queueSize >= threshold

\* videoEncoder.encodeQueueSize > 12, line 485; audio > 20, line 506
needsBreathingRoom(queueSize, threshold) == queueSize > threshold

\* a keyframe rule that forces the first frame of every interval
KeyFrameFirst(count, interval) == (count - 1) % interval = 0

\* videoFrameCount % keyInterval === 0, line 482
KeyFrame(count, interval) == count % interval = 0

\* videoReader.read() resolves with a frame and the encoder's queue size is
\* found to be queueSize: lines 478-487.  encode() throws on an encoder
\* that is no longer configured, which rejects the task before frame.close()
videoFrameAt(queueSize) ==
    /\ run.videoTask = "reading"
    /\ media.playback = "playing"
    /\ media.videoTrack = "live"
    /\ media.time > media.lastVideoTime
    /\ LET timestamp == VideoTimestampUs(media.time)
           r == [run EXCEPT !.videoFrameCount = @ + 1, !.videoOpen = @ + 1]
       IN  IF run.videoEncoder = "configured"
           THEN /\ progress' = updateProgress(r, progress, timestamp, media.time)
                /\ run' = [updateProgressLocals(r, timestamp) EXCEPT
                             !.videoKeyFlag =
                                 IF KeyFrame(r.videoFrameCount, r.keyInterval)
                                 THEN "key" ELSE "delta",
                             !.videoOpen = @ - 1,
                             !.videoLastTs = timestamp,
                             !.videoPending = @ + 1,
                             !.videoTask =
                                 IF needsBreathingRoom(queueSize, VideoQueueThreshold)
                                 THEN "breathing" ELSE "reading"]
           ELSE /\ progress' = progress
                /\ run' = [r EXCEPT !.videoTask = "failed"]
    /\ media' = [media EXCEPT !.lastVideoTime = media.time]
    /\ UNCHANGED <<inputFile, inputUrl, outputUrl, outputSize, duration,
                   isConverting, status, error, quality, speed, includeAudio,
                   isSupported, platform, fileEvents, active, pc>>

videoFrame == \E queueSize \in QueueSizes(VideoQueueThreshold) : videoFrameAt(queueSize)

\* videoReader.read() resolves with done: line 479
videoDone ==
    /\ run.videoTask = "reading"
    /\ \/ media.videoTrack = "stopped"
       \/ media.playback \in {"ended", "error", "cleared"}
    /\ run' = [run EXCEPT !.videoTask = "done"]
    /\ UNCHANGED <<uiVars, platform, fileEvents, active, pc, media>>

\* waitForBreathingRoom resolves, lines 94-97 and 486
videoBreathed ==
    /\ run.videoTask = "breathing"
    /\ run' = [run EXCEPT !.videoTask = "reading"]
    /\ UNCHANGED <<uiVars, platform, fileEvents, active, pc, media>>

\* audioReader.read() resolves with a sample and the encoder's queue size
\* is found to be queueSize: lines 500-508
audioSampleAt(queueSize) ==
    /\ run.audioTask = "reading"
    /\ media.playback = "playing"
    /\ media.audioTrack = "live"
    /\ media.time > media.lastAudioTime
    /\ LET timestamp == AudioTimestampUs(media.time)
           r == [run EXCEPT !.audioOpen = @ + 1]
       IN  IF run.audioEncoder = "configured"
           THEN /\ progress' = updateProgress(r, progress, timestamp, media.time)
                /\ run' = [updateProgressLocals(r, timestamp) EXCEPT
                             !.audioPending = @ + 1,
                             !.audioOpen = @ - 1,
                             !.audioLastTs = timestamp,
                             !.audioTask =
                                 IF needsBreathingRoom(queueSize, AudioQueueThreshold)
                                 THEN "breathing" ELSE "reading"]
           ELSE /\ progress' = progress
                /\ run' = [r EXCEPT !.audioTask = "failed"]
    /\ media' = [media EXCEPT !.lastAudioTime = media.time]
    /\ UNCHANGED <<inputFile, inputUrl, outputUrl, outputSize, duration,
                   isConverting, status, error, quality, speed, includeAudio,
                   isSupported, platform, fileEvents, active, pc>>

audioSample == \E queueSize \in QueueSizes(AudioQueueThreshold) : audioSampleAt(queueSize)

\* audioReader.read() resolves with done: line 501
audioDone ==
    /\ run.audioTask = "reading"
    /\ \/ media.audioTrack = "stopped"
       \/ media.playback \in {"ended", "error", "cleared"}
    /\ run' = [run EXCEPT !.audioTask = "done"]
    /\ UNCHANGED <<uiVars, platform, fileEvents, active, pc, media>>

\* waitForBreathingRoom resolves, line 507
audioBreathed ==
    /\ run.audioTask = "breathing"
    /\ run' = [run EXCEPT !.audioTask = "reading"]
    /\ UNCHANGED <<uiVars, platform, fileEvents, active, pc, media>>

\* the interval callback of lines 466-470
timerTick ==
    /\ run.progressTimer
    /\ progress' = updateProgress(run, progress, NULL, media.time)
    /\ run' = updateProgressLocals(run, NULL)
    /\ UNCHANGED <<inputFile, inputUrl, outputUrl, outputSize, duration,
                   isConverting, status, error, quality, speed, includeAudio,
                   isSupported, platform, fileEvents, active, pc, media>>

\* playback advances by one clock position
advance ==
    /\ media.playback = "playing"
    /\ media.time < MaxTime
    /\ media' = [media EXCEPT !.time = @ + 1]
    /\ UNCHANGED <<uiVars, platform, fileEvents, active, pc, run>>

\* track.stop(), lines 520-521
stopped(track) == IF track = "live" THEN "stopped" ELSE track

\* the element fires ended; a run waiting at lines 512-517 goes on to
\* lines 519-523, otherwise nobody listens
sourceEnded ==
    /\ media.playback = "playing"
    /\ IF pc = "encoding"
       THEN /\ media' = [media EXCEPT !.playback = "ended",
                                      !.videoTrack = stopped(@),
                                      !.audioTrack = stopped(@)]
            /\ pc' = "joinTasks"
       ELSE /\ media' = [media EXCEPT !.playback = "ended"]
            /\ pc' = pc
    /\ UNCHANGED <<uiVars, platform, fileEvents, active, run>>

\* an error event that a waiting run takes for the end of the source
sourceErrorAsEnded ==
    /\ media.playback = "playing"
    /\ IF pc = "encoding"
       THEN /\ media' = [media EXCEPT !.playback = "error",
                                      !.videoTrack = stopped(@),
                                      !.audioTrack = stopped(@)]
            /\ pc' = "joinTasks"
       ELSE /\ media' = [media EXCEPT !.playback = "error"]
            /\ pc' = pc
    /\ UNCHANGED <<uiVars, platform, fileEvents, active, run>>

\* the element fires error; a run waiting at lines 512-517 is rejected
sourceError ==
    /\ media.playback = "playing"
    /\ IF pc = "encoding"
       THEN Catch(run, [media EXCEPT !.playback = "error"], "Playback failed.")
       ELSE /\ media' = [media EXCEPT !.playback = "error"]
            /\ UNCHANGED <<error, status, isConverting, active, pc, run>>
    /\ UNCHANGED <<inputFile, inputUrl, outputUrl, outputSize, duration,
                   progress, quality, speed, includeAudio, isSupported, platform, fileEvents>>

\* a success path without the setProgress(100) of line 539
finishKeepingProgress(r) ==
    /\ outputSize' = 1
    /\ outputUrl' = r.file
    /\ status' = "Conversion complete"
    /\ progress' = progress
    /\ Finally([r EXCEPT !.muxer[1].finalized = TRUE,
                         !.terminalWrites = @ + 1], media)

\* lines 532-539 and finally: the muxer is finalized, the output published
finish(r) ==
    /\ outputSize' = 1
    /\ outputUrl' = r.file
    /\ status' = "Conversion complete"
    /\ progress' = 100
    /\ Finally([r EXCEPT !.muxer[1].finalized = TRUE,
                         !.terminalWrites = @ + 1], media)

\* the metadata an encoder passes with a chunk: a decoder configuration of
\* its own track, or none (<<>>)
VideoMetadata == {[track |-> "video", config |-> c] : c \in {"first", "next"}}

AudioMetadata == {[track |-> "audio", config |-> c] : c \in {"first", "next"}}

MetaOptions(Metadata) == {<<>>} \cup {<<m>> : m \in Metadata}

\* a callback that holds on to the first metadata it saw
metadataFirstSeen(own, last) == IF last # <<>> THEN last ELSE own

\* if (meta) videoMeta = meta, lines 418-420 and 437-439
metadataSeen(own, last) == IF own # <<>> THEN own ELSE last

\* the video encoder's output callback is called for n units, the first
\* with the metadata meta (later ones carry none): lines 417-425
videoOutputs(r, n, meta) ==
    LET seen == metadataSeen(meta, r.videoMeta)
    IN  IF n = 0 THEN r
        ELSE IF seen # <<>>
        THEN [r EXCEPT !.videoMeta = seen,
                       !.videoPending = @ - n,
                       !.muxer[1].videoChunks = @ + n,
                       !.muxer[1].videoPaired = seen]
        ELSE [r EXCEPT !.videoPending = @ - n, !.outputThrew = TRUE]

\* the audio encoder's output callback, lines 436-444
audioOutputs(r, n, meta) ==
    LET seen == metadataSeen(meta, r.audioMeta)
    IN  IF n = 0 THEN r
        ELSE IF seen # <<>>
        THEN [r EXCEPT !.audioMeta = seen,
                       !.audioPending = @ - n,
                       !.muxer[1].audioChunks = @ + n,
                       !.muxer[1].audioPaired = seen]
        ELSE [r EXCEPT !.audioPending = @ - n, !.outputThrew = TRUE]

\* an encoder puts out one unit while the run goes on; an error thrown by
\* the callback is reported by the browser and reaches no code of the run
videoOutputOf(meta) ==
    /\ run.videoEncoder = "configured"
    /\ run.videoPending > 0
    /\ run' = videoOutputs(run, 1, meta)
    /\ UNCHANGED <<uiVars, platform, fileEvents, active, pc, media>>

videoOutput == \E meta \in MetaOptions(VideoMetadata) : videoOutputOf(meta)

audioOutputOf(meta) ==
    /\ run.audioEncoder = "configured"
    /\ run.audioPending > 0
    /\ run' = audioOutputs(run, 1, meta)
    /\ UNCHANGED <<uiVars, platform, fileEvents, active, pc, media>>

audioOutput == \E meta \in MetaOptions(AudioMetadata) : audioOutputOf(meta)

\* an encoder reports an error: the browser closes it and calls the error
\* callback, which only logs (lines 426-428 and 445-447)
videoEncoderError ==
    /\ isConverting
    /\ run.videoEncoder = "configured"
    /\ run' = [run EXCEPT !.videoEncoder = "errored", !.videoPending = 0,
                          !.errorLogged = TRUE]
    /\ UNCHANGED <<uiVars, platform, fileEvents, active, pc, media>>

audioEncoderError ==
    /\ isConverting
    /\ run.audioEncoder = "configured"
    /\ run' = [run EXCEPT !.audioEncoder = "errored", !.audioPending = 0,
                          !.errorLogged = TRUE]
    /\ UNCHANGED <<uiVars, platform, fileEvents, active, pc, media>>

\* a join that waits for the video task alone
videoTaskFulfilled(r) == r.videoTask = "done"

\* both promises of Promise.all([videoTask, audioTask]) are fulfilled
tasksFulfilled(r) == r.videoTask = "done" /\ r.audioTask = "done"

\* await Promise.all([videoTask, audioTask]) settles, line 523: rejected as
\* soon as one task has failed, fulfilled when both are done
joinedTasks ==
    /\ pc = "joinTasks"
    /\ IF "failed" \in {run.videoTask, run.audioTask}
       THEN /\ Catch(run, media, "encode failed")
            /\ UNCHANGED <<outputUrl, outputSize, progress>>
       ELSE /\ tasksFulfilled(run)
            /\ pc' = "flushVideo"
            /\ UNCHANGED <<outputUrl, outputSize, progress, isConverting,
                           status, error, active, run, media>>
    /\ UNCHANGED <<inputFile, inputUrl, duration, quality, speed,
                   includeAudio, isSupported, platform, fileEvents>>

\* a flush that is fulfilled whatever the encoder's state
flushNeverRejects(encoder) == FALSE

\* encoder.flush() returns a rejected promise unless the encoder is
\* configured (lines 525, 528)
flushRejects(encoder) == encoder # "configured"

\* await videoEncoder.flush() settles, lines 525-530: the encoder has put
\* out every unit it still held, the first with one of the metadata metas; flush() rejects on an encoder that is no longer configured
flushedVideoWith(metas) ==
    /\ pc = "flushVideo"
    /\ IF flushRejects(run.videoEncoder)
       THEN /\ Catch(run, media, "flush failed")
            /\ UNCHANGED <<outputUrl, outputSize, progress>>
       ELSE \E meta \in metas :
            LET r == [videoOutputs(run, run.videoPending, meta)
                          EXCEPT !.videoEncoder = "closed"]
            IN  IF r.audioEncoder # "none"
                THEN /\ run' = r
                     /\ pc' = "flushAudio"
                     /\ UNCHANGED <<outputSize, outputUrl, status, progress,
                                    error, isConverting, active, media>>
                ELSE finish(r) /\ UNCHANGED error
    /\ UNCHANGED <<inputFile, inputUrl, duration, quality, speed,
                   includeAudio, isSupported, platform, fileEvents>>

\* an encoder whose first output carries metadata
flushedVideo ==
    flushedVideoWith({<<[track |-> "video", config |-> "first"]>>})

\* await audioEncoder.flush() settles, lines 528-539
flushedAudioWith(metas) ==
    /\ pc = "flushAudio"
    /\ IF flushRejects(run.audioEncoder)
       THEN /\ Catch(run, media, "flush failed")
            /\ UNCHANGED <<outputUrl, outputSize, progress>>
       ELSE \E meta \in metas :
            /\ finish([audioOutputs(run, run.audioPending, meta)
                           EXCEPT !.audioEncoder = "closed"])
            /\ UNCHANGED error
    /\ UNCHANGED <<inputFile, inputUrl, duration, quality, speed,
                   includeAudio, isSupported, platform, fileEvents>>

flushedAudio ==
    flushedAudioWith({<<[track |-> "audio", config |-> "first"]>>})

---------------------------------------------------------------------------
(* The component: every handler, every continuation of runConversion and   *)
(* every event of the environment.                                         *)

\* the continuations of runConversion and the tasks, timer and events of
\* its encoding phase
Pipeline ==
    \/ runConversion
    \/ importResolved
    \/ importRejected
    \/ metadataError
    \/ playRejected
    \/ playResolved
    \/ analyzedSample
    \/ analyzedDone
    \/ probedVideo
    \/ probedAudio
    \/ videoFrame
    \/ videoDone
    \/ videoBreathed
    \/ audioSample
    \/ audioDone
    \/ audioBreathed
    \/ sourceEnded
    \/ sourceError
    \/ joinedTasks
    \/ flushedVideo
    \/ flushedAudio

\* The full pipeline under the default presets and with audio requested, on
\* sources that play for MaxTime seconds.  The preview's loadedmetadata
\* event is taken between runs: a run reads the duration state it captured
\* at the click (line 239), so an event during the run changes nothing the
\* run can see.
Next ==
    \/ \E f \in Files : fileChosen(f)
    \/ clearClicked
    \/ ~isConverting /\ onLoadedMetadata
    \/ loadedMetadata(RunSources, RunAudioSettings)
    \/ timerTick
    \/ advance
    \/ Pipeline

Spec == Init /\ [][Next]_vars

\* Every preset and source descriptor on one browser and one WebM file,
\* the clock standing still and the file picker used between runs.
InitConfig == InitWith(ConfigPlatforms)

NextConfig ==
    \/ active = 0 /\ fileChosen("a.webm")
    \/ \E q \in QualityIds : setQuality(q)
    \/ \E s \in SpeedIds : setSpeed(s)
    \/ loadedMetadata(ConfigSources, RunAudioSettings)
    \/ Pipeline

SpecConfig == InitConfig /\ [][NextConfig]_vars

\* Every browser and every audio track description on one source, the clock
\* standing still and the file picker used between runs.
InitNegotiate == InitWith(Platforms)

NextNegotiate ==
    \/ \E f \in Files : active = 0 /\ fileChosen(f)
    \/ \E b \in BOOLEAN : setIncludeAudio(b)
    \/ loadedMetadata(RunSources, ConfigAudioSettings)
    \/ Pipeline

SpecNegotiate == InitNegotiate /\ [][NextNegotiate]_vars

\* an audio track whose settings carry no attributes, so that the run
\* reads a sample for them
EncodeAudioSettings == {[sampleRate |-> NULL, channelCount |-> NULL]}

\* The full pipeline of one WebM file on one browser, with encoders that
\* put out their chunks at any time after a submission, with any metadata;
\* the file picker is used between runs.
InitEncode == InitWith(ConfigPlatforms)

NextEncode ==
    \/ active = 0 /\ fileChosen("a.webm")
    \/ loadedMetadata(RunSources, EncodeAudioSettings)
    \/ timerTick
    \/ advance
    \/ videoOutput
    \/ audioOutput
    \/ flushedVideoWith(MetaOptions(VideoMetadata))
    \/ flushedAudioWith(MetaOptions(AudioMetadata))
    \/ Pipeline

SpecEncode == InitEncode /\ [][NextEncode]_vars

\* The full pipeline of one WebM file on one browser, with encoders that
\* may report an error at any time after they were configured.
InitFault == InitWith(ConfigPlatforms)

NextFault ==
    \/ active = 0 /\ fileChosen("a.webm")
    \/ loadedMetadata(RunSources, RunAudioSettings)
    \/ timerTick
    \/ advance
    \/ videoEncoderError
    \/ audioEncoderError
    \/ Pipeline

SpecFault == InitFault /\ [][NextFault]_vars

\* The full pipeline of one WebM file on one browser in which every
\* continuation that can run does run in the end: a settled promise
\* resumes its awaiter, a reader answers, a source that plays ends or fails.
InitLive == InitWith(ConfigPlatforms)

NextLive ==
    \/ active = 0 /\ fileChosen("a.webm")
    \/ loadedMetadata(RunSources, RunAudioSettings)
    \/ advance
    \/ Pipeline

SpecLive == InitLive /\ [][NextLive]_vars /\ WF_vars(Pipeline)

---------------------------------------------------------------------------
(* Properties of a run's life cycle and of its progress.                   *)

\* the two statuses a run ends with, lines 537 and 543
TerminalStatuses == {"Conversion complete", "Conversion failed"}

\* a step of the file picker or the Clear button while a run is in flight
FileEventStep == fileEvents' # fileEvents

\* C1: a run goes idle -> running -> {succeeded | failed} exactly once.  At
\* most one run is in flight and isConverting says whether one is; a run
\* starts only from idle; while it runs it has written no terminal status;
\* the step that ends it is its single terminal write and leaves exactly
\* one of "Conversion complete" and "Conversion failed".
C1_RunOnce ==
    [][/\ active' \in {0, 1}
       /\ isConverting' <=> active' = 1
       /\ (~isConverting /\ isConverting') =>
             (active = 0 /\ run'.terminalWrites = 0)
       /\ (isConverting /\ isConverting') =>
             (run'.terminalWrites = 0 /\ status' \notin TerminalStatuses)
       /\ (isConverting /\ ~isConverting') =>
             (run'.terminalWrites = 1 /\ status' \in TerminalStatuses)]_vars

\* a run that failed after its muxer and encoders were created has ended,
\* with its one terminal status written
C1_Witness ==
    /\ ~isConverting
    /\ active = 0
    /\ run.terminalWrites = 1
    /\ status = "Conversion failed"
    /\ run.muxer # <<>>

C3_SuccessIsHundred ==
    (~isConverting /\ status = "Conversion complete") => progress = 100

\* a run with a known duration has succeeded
C3_Witness ==
    /\ ~isConverting
    /\ status = "Conversion complete"
    /\ progress = 100
    /\ Truthy(run.durationSeconds)
    /\ run.videoFrameCount > 0

\* C4 as stated: with the duration unknown, progress is none in every state
\* of the run, its terminal state included.
C4_NoneUntilTerminal ==
    [][(isConverting /\ ~Truthy(run'.durationSeconds)) =>
          progress' = NULL]_vars

\* C4 as amended: with the duration unknown, progress is none in every state
\* of the run until it ends; a successful end sets it to 100, a failed end
\* leaves it none.
C4_NoneUntilSuccess ==
    [][(isConverting /\ ~Truthy(run'.durationSeconds)) =>
          progress' = IF ~isConverting' /\ status' = "Conversion complete"
                      THEN 100 ELSE NULL]_vars

\* a run of unknown duration has encoded a frame and reports nothing
C4_Witness ==
    /\ isConverting
    /\ ~Truthy(run.durationSeconds)
    /\ run.videoFrameCount > 0
    /\ progress = NULL

---------------------------------------------------------------------------
(* Properties of the negotiation.                                          *)

\* the position of the first candidate the browser supports, 0 if none
FirstSupported ==
    LET S == {i \in 1..NumCandidates : platform.videoSupport[i] # "unsupported"}
    IN  IF S = {} THEN 0 ELSE CHOOSE i \in S : \A j \in S : i <= j

\* the run's candidate list, rebuilt from its derived parameters
RunCandidates ==
    videoConfigCandidates(
        [width |-> run.width, height |-> run.height,
         bitrate |-> run.videoBitrate, framerate |-> run.frameRate],
        speedPresets[run.speed].latencyMode)

\* the video negotiation of the current run has ended
NegotiationEnded ==
    /\ run.videoProbes > 0
    /\ run.lastAnswer # "unsupported" \/ run.videoProbes = NumCandidates

\* all candidates were probed and none is supported
NegotiationExhausted ==
    run.videoProbes = NumCandidates /\ run.lastAnswer = "unsupported"

\* C5: the negotiation probes the 16 candidates in construction order and
\* never beyond the first supported one; when it ends, the chosen config is
\* a function of the candidate list and the browser's answers: the first
\* supported candidate, in the browser's normalized form when the browser
\* returned one and as built otherwise, or none when none is supported.
C5_FirstSupportedChosen ==
    LET k == FirstSupported
    IN  /\ NumCandidates = 16
        /\ run.videoProbes <= (IF k = 0 THEN NumCandidates ELSE k)
        /\ ~NegotiationEnded => run.chosenVideoConfig = <<>>
        /\ NegotiationEnded =>
              /\ run.videoProbes = (IF k = 0 THEN NumCandidates ELSE k)
              /\ run.chosenVideoConfig =
                    IF k = 0 THEN <<>>
                    ELSE IF platform.videoSupport[k] = "normalized"
                    THEN <<[RunCandidates[k] EXCEPT
                              !.latencyMode =
                                  IF @ = "absent" THEN "quality" ELSE @,
                              !.hardwareAcceleration =
                                  IF @ = "absent" THEN "no-preference" ELSE @]>>
                    ELSE <<RunCandidates[k]>>

\* the sixth candidate (second codec, no hardware preference) was the
\* first supported one and the browser returned its normalized form
C5_Witness ==
    /\ run.videoProbes = 6
    /\ run.lastAnswer = "normalized"
    /\ run.chosenVideoConfig # <<>>
    /\ run.chosenVideoConfig[1].codec = codecCandidates[2]
    /\ run.videoEncoder = "configured"

\* C6: when the browser supports none of the candidates the run ends
\* failed with the error shown, no muxer and no encoder is created, and no
\* output is published.
C6_NoCodecFails ==
    [][NegotiationExhausted' =>
          /\ ~isConverting'
          /\ run'.terminalWrites = 1
          /\ run'.muxer = <<>>
          /\ run'.videoEncoder = "none"
          /\ run'.audioEncoder = "none"
          /\ outputUrl' = "null"
          /\ outputSize' = NULL
          /\ ~NegotiationExhausted =>
                /\ status' = "Conversion failed"
                /\ error' = "H.264 encoding is not supported in this browser."]_vars

\* a run that probed all 16 candidates in vain has failed
C6_Witness ==
    /\ NegotiationExhausted
    /\ status = "Conversion failed"
    /\ error = "H.264 encoding is not supported in this browser."
    /\ pc = "idle"

\* C7: an unsupported audio config does not abort the run.  The step that
\* learns it goes on to encoding with the run still in flight; from then on
\* audio is disabled, no audio encoder exists, the muxer has no audio track,
\* no audio task runs and the end of the run flushes the video encoder only.
C7_AudioUnsupportedIsNotFatal ==
    [][run'.audioSupport = "unsupported" =>
          /\ ~run'.audioEnabled
          /\ run'.audioEncoder = "none"
          /\ run'.audioEncoderConfig = <<>>
          /\ run'.muxer # <<>>
          /\ run'.muxer[1].audio = <<>>
          /\ run'.videoEncoder # "none"
          /\ run'.audioTask = "done"
          /\ pc' # "flushAudio"
          /\ pc = "probeAudio" =>
                (isConverting' /\ pc' = "encoding" /\ status' = "Encoding video")]_vars

\* a run whose audio config was refused has succeeded
C7_Witness ==
    /\ run.audioSupport = "unsupported"
    /\ run.includeAudio
    /\ status = "Conversion complete"
    /\ run.muxer[1].finalized

\* C8: an audio encoder exists, and the muxer has an audio track, only with
\* a sample rate and a channel count that are both known and non-zero.
C8_AudioNeedsAttributes ==
    /\ run.audioEncoder # "none" =>
          /\ run.audioEncoderConfig # <<>>
          /\ Truthy(run.audioEncoderConfig[1].sampleRate)
          /\ Truthy(run.audioEncoderConfig[1].numberOfChannels)
    /\ (run.muxer # <<>> /\ run.muxer[1].audio # <<>>) =>
          /\ Truthy(run.muxer[1].audio[1].sampleRate)
          /\ Truthy(run.muxer[1].audio[1].numberOfChannels)

\* an audio encoder was configured and the muxer given an audio track
\* after the track's first sample was pulled
C8_Witness ==
    /\ run.audioEncoder = "configured"
    /\ run.muxer[1].audio # <<>>
    /\ media.lastAudioTime # NULL
    /\ run.videoFrameCount = 0
    /\ run.audioTask = "reading"
    /\ run.bufferedAudio = <<>>
    /\ run.progressOffsetUs = NULL

---------------------------------------------------------------------------
(* Properties of the derived parameters.                                   *)

\* the run has derived its parameters (lines 265-274)
ParametersDerived == run.width # NULL

\* value is the even, >= 2 dimension the source dimension calls for
DimensionFits(value, source, fallback) ==
    /\ value % 2 = 0
    /\ value >= 2
    /\ source >= 2 => value \in {source, source - 1}
    /\ source = 1 => value = 2
    /\ source = 0 => value = fallback

\* C9: for every source width and height the derived width and height are
\* even and at least 2, the source dimension floored to even when it is at
\* least 2, and 1280 and 720 when it is 0 or unavailable; the chosen encoder
\* config and the muxer's video track carry exactly these values.
C9_EvenDimensions ==
    ParametersDerived =>
        /\ DimensionFits(run.width, run.widthSource, 1280)
        /\ DimensionFits(run.height, run.heightSource, 720)
        /\ run.chosenVideoConfig # <<>> =>
              /\ run.chosenVideoConfig[1].width = run.width
              /\ run.chosenVideoConfig[1].height = run.height
        /\ run.muxer # <<>> =>
              /\ run.muxer[1].video.width = run.width
              /\ run.muxer[1].video.height = run.height

\* a 1x1 source was encoded as 2x2
C9_Witness ==
    /\ run.widthSource = 1
    /\ run.heightSource = 1
    /\ run.muxer # <<>>
    /\ run.muxer[1].video = [codec |-> "avc", width |-> 2, height |-> 2]

\* C10 as stated: for every preset and source the derived video bitrate is
\* at least 1,500,000 bits/sec.
C10_AtLeastFloor ==
    ParametersDerived => run.videoBitrate >= 1500000

\* C10 as amended: the derived video bitrate is at least the floor of
\* 1,500,000 bits/sec scaled by the preset: 2,025,000 for high, 1,500,000
\* for balanced and 1,050,000 for small; the chosen encoder config carries
\* that bitrate.
C10_AtLeastScaledFloor ==
    ParametersDerived =>
        /\ run.videoBitrate >=
              (CASE run.quality = "high" -> 2025000
                 [] run.quality = "balanced" -> 1500000
                 [] run.quality = "small" -> 1050000)
        /\ run.chosenVideoConfig # <<>> =>
              run.chosenVideoConfig[1].bitrate = run.videoBitrate

\* a small-preset run of a small source encodes at 1,050,000 bits/sec
C10_Witness ==
    /\ run.quality = "small"
    /\ run.videoBitrate = 1050000
    /\ run.chosenVideoConfig # <<>>
    /\ run.videoEncoder = "configured"

\* the encoding phase of the run has begun (lines 396-517 have run)
EncodingStarted == run.muxer # <<>>

\* n is x rounded to the nearest integer, halves up, for x = num / den
IsRounded(n, num, den) == 2 * den * n <= 2 * num + den /\ 2 * num + den < 2 * den * (n + 1)

\* C11: the derived parameters follow the reference formulas.  For every
\* preset the keyframe interval is max(1, round(frameRate x gopSeconds)),
\* with gopSeconds 1.5, 2.5 and 4, and the audio bitrate is 192000, 128000
\* or 96000 for high, balanced and small; a 1280x720 source at 30 fps under
\* balanced and standard gets the interval 75, the video bitrate 1,935,360
\* and the audio bitrate 128000.
C11_ReferenceFormulas ==
    /\ ParametersDerived =>
          /\ run.audioBitrate =
                (CASE run.quality = "high" -> 192000
                   [] run.quality = "balanced" -> 128000
                   [] run.quality = "small" -> 96000)
          /\ (run.width = 1280 /\ run.height = 720 /\ run.frameRate = 30
               /\ run.quality = "balanced") =>
                 (run.videoBitrate = 1935360 /\ run.audioBitrate = 128000)
    /\ EncodingStarted =>
          LET gopTenths == CASE run.speed = "fast" -> 15
                             [] run.speed = "standard" -> 25
                             [] run.speed = "quality" -> 40
          IN  /\ run.keyInterval >= 1
              /\ \E n \in 0..run.keyInterval :
                    /\ IsRounded(n, run.frameRate * gopTenths, 10)
                    /\ run.keyInterval = (IF n < 1 THEN 1 ELSE n)
              /\ (run.frameRate = 30 /\ run.speed = "standard") =>
                    run.keyInterval = 75

\* the reference run: 1280x720 at 30 fps, balanced and standard
C11_Witness ==
    /\ EncodingStarted
    /\ run.width = 1280 /\ run.height = 720 /\ run.frameRate = 30
    /\ run.quality = "balanced" /\ run.speed = "standard"
    /\ run.keyInterval = 75
    /\ run.videoBitrate = 1935360
    /\ run.audioBitrate = 128000

---------------------------------------------------------------------------
(* Properties of the fatal paths.                                          *)

\* the step that ends a run in failure
RunFails == isConverting /\ ~isConverting' /\ status' = "Conversion failed"

\* the element's error event reaches a run that waits for the end of the
\* source (lines 512-517)
PlaybackErrorMidRun ==
    /\ pc = "encoding"
    /\ media.playback = "playing"
    /\ media'.playback \in {"error", "cleared"}

\* C12 as stated: on every fatal path the full release sequence has run when
\* the run returns: the tracks are stopped, every encoder that was opened is
\* closed, no sample is left buffered and the working URL is revoked.
C12_FullCleanupOnFailure ==
    [][RunFails =>
          /\ media'.videoTrack # "live"
          /\ media'.audioTrack # "live"
          /\ run'.videoEncoder # "configured"
          /\ run'.audioEncoder # "configured"
          /\ run'.bufferedAudio = <<>>
          /\ run'.shouldRevokeWorkingUrl => run'.workingUrlRevoked]_vars

\* C13: a playback error that reaches a run after encoding has started ends
\* the run failed with the muxer never finalized and no output published;
\* nothing finalizes that muxer or publishes an output afterwards.
C13_NoFinalizeAfterPlaybackError ==
    [][/\ PlaybackErrorMidRun =>
             /\ ~isConverting'
             /\ status' = "Conversion failed"
             /\ error' = "Playback failed."
             /\ run'.muxer # <<>>
             /\ ~run'.muxer[1].finalized
             /\ outputUrl' = "null"
             /\ outputSize' = NULL
       /\ (~isConverting /\ ~isConverting') =>
             /\ run'.muxer = run.muxer
             /\ outputUrl' \in {outputUrl, "null"}]_vars

\* a run was aborted by a playback error after it had encoded a frame
C13_Witness ==
    /\ ~isConverting
    /\ error = "Playback failed."
    /\ status = "Conversion failed"
    /\ run.videoFrameCount > 0
    /\ run.muxer # <<>>
    /\ ~run.muxer[1].finalized
    /\ outputUrl = "null"

---------------------------------------------------------------------------
(* C14: every frame or sample pulled from a track reader is released (closed)
   exactly once, also when the loop is aborted by a playback error and when
   an encoder submission fails: no unit is left open between two steps of a
   task other than the buffered probing sample of a run in progress, and
   none at all once the run has returned. *)
C14_EveryUnitReleasedOnce ==
    /\ run.videoOpen = 0
    /\ run.audioOpen = IF isConverting THEN Len(run.bufferedAudio) ELSE 0

(* C15: when an encoder's output callback delivers a unit and no metadata
   was ever seen for its track, the run is aborted: it does not end
   succeeded with an output published. *)
C15_MissingMetadataAborts ==
    run.outputThrew =>
        ~(status = "Conversion complete" /\ outputUrl # "null"
                                         /\ run.muxer[1].finalized)

\* the browser lacks a capability the conversion asked for needs
CapabilityAbsent ==
    \/ ~platform.videoCodecs
    \/ includeAudio /\ ~platform.audioCodecs

\* the messages of lines 175 and 180
CapabilityErrors == {"WebCodecs unavailable", "Audio WebCodecs unavailable"}

(* C16: when a required capability is absent (no video encoding, track
   processor or capture support, or audio requested without an audio
   encoder), no run is attempted: no step enters the running state or
   creates a source element, and the step in which runConversion sets its
   error leaves the output, the progress and the status as they were. *)
C16_NoRunWithoutCapability ==
    [][(CapabilityAbsent /\ ~isConverting) =>
          /\ ~isConverting'
          /\ active' = active
          /\ pc' = pc
          /\ media'.element = media.element
          /\ (error' # error /\ error' \in CapabilityErrors) =>
                /\ outputUrl' = outputUrl
                /\ outputSize' = outputSize
                /\ progress' = progress
                /\ status' = status
                /\ run' = run]_vars

\* Convert was refused for lack of an audio encoder while the output of an
\* earlier video-only run is still published
C16_Witness ==
    /\ error = "Audio WebCodecs unavailable"
    /\ CapabilityAbsent
    /\ ~isConverting
    /\ outputUrl # "null"

\* the positions of a run after its audio attributes were settled
PastProbing ==
    {"probeVideo", "probeAudio", "encoding", "joinTasks", "flushVideo",
     "flushAudio"}

\* the run had an audio reader and ended up without sample rate or channels
ProbedNothing(r) ==
    r.audioReader /\ ~AudioAttributesKnown(r.audioSampleRate, r.audioChannels)

(* C17: when the track's settings lack the sample rate or the channel count
   and the one sample read for probing gives none either (or the stream has
   ended), the run goes on to the negotiation with audio disabled; the
   sample read, if any, has been closed exactly once, and nothing is
   submitted to an audio encoder for the rest of the run. *)
C17_ProbeFailureDisablesAudio ==
    /\ [][(pc = "analyzeAudio" /\ pc' # pc /\ ProbedNothing(run')) =>
             /\ pc' = "probeVideo"
             /\ isConverting']_vars
    /\ [](pc \in PastProbing /\ ProbedNothing(run) =>
             /\ ~run.includeAudioTrack
             /\ ~run.audioEnabled
             /\ run.audioEncoder = "none"
             /\ run.bufferedAudio = <<>>
             /\ run.audioOpen = 0
             /\ run.audioPending = 0)

\* a sample without channels was read for probing and the run encodes video
C17_Witness ==
    /\ pc = "encoding"
    /\ ProbedNothing(run)
    /\ run.audioChannels = 0
    /\ run.audioOpen = 0
    /\ run.videoEncoder = "configured"

(* C18: the n-th video frame read is submitted with the keyFrame option set
   exactly when n is a multiple of the keyframe interval, so that with an
   interval above 1 the first frame is not forced; audio samples are
   submitted without a keyFrame option (the video field is untouched by
   audio steps). *)
C18_KeyFrameEveryInterval ==
    [][/\ (run'.videoFrameCount = run.videoFrameCount + 1
               /\ run.videoEncoder = "configured") =>
              /\ run'.videoKeyFlag \in {"key", "delta"}
              /\ run'.videoKeyFlag = "key" <=>
                    \E k \in 1..run'.videoFrameCount :
                        run'.videoFrameCount = k * run'.keyInterval
       /\ run'.audioPending = run.audioPending + 1
              => run'.videoKeyFlag = run.videoKeyFlag
       /\ run'.videoFrameCount = run.videoFrameCount /\ run'.keyInterval # NULL
              /\ run.keyInterval # NULL
              => run'.videoKeyFlag = run.videoKeyFlag]_vars

\* the third frame of a run with interval 3 was submitted as a key frame
\* after two delta frames
C18_Witness ==
    /\ run.keyInterval = 3
    /\ run.videoFrameCount = 3
    /\ run.videoKeyFlag = "key"

(* C19: after a submission made in its loop a track task takes the
   breathing-room yield before its next read exactly when the encoder's
   queue size is strictly above the threshold of its class (12 for video,
   20 for audio), not at or below it; a task that yields reads nothing
   until the yield is over (or a new run has replaced it). *)
C19_YieldAboveThresholdOnly ==
    [][/\ \A q \in QueueSizes(VideoQueueThreshold) :
              (videoFrameAt(q) /\ run.videoEncoder = "configured") =>
                  /\ run'.videoTask \in {"breathing", "reading"}
                  /\ run'.videoTask = "breathing" <=> q > 12
       /\ \A q \in QueueSizes(AudioQueueThreshold) :
              (audioSampleAt(q) /\ run.audioEncoder = "configured") =>
                  /\ run'.audioTask \in {"breathing", "reading"}
                  /\ run'.audioTask = "breathing" <=> q > 20
       /\ (run.videoTask = "breathing" /\ run'.muxer # <<>>) =>
              run'.videoFrameCount = run.videoFrameCount
       /\ (run.audioTask = "breathing" /\ run'.muxer # <<>>) =>
              /\ run'.audioPending <= run.audioPending
              /\ run'.audioOpen = run.audioOpen]_vars

\* both tasks have submitted a unit and are yielding at once
C19_Witness ==
    /\ run.videoTask = "breathing"
    /\ run.audioTask = "breathing"
    /\ run.videoFrameCount > 0
    /\ run.audioPending > 0

\* the run's audio encoder exists (lines 434-450)
AudioEncoderCreated(r) == r.audioEnabled /\ r.audioEncoderConfig # <<>>

(* C20: in a successful run the finishing events come in this order: the
   source has ended; both tasks are complete; the video encoder is flushed
   and closed; then, with audio enabled, the audio encoder is flushed and
   closed; then the muxer is finalized, once; and no chunk is added to the
   muxer after that. *)
C20_FinishingOrder ==
    /\ [](pc \in {"flushVideo", "flushAudio"} =>
             /\ media.playback = "ended"
             /\ run.videoTask = "done"
             /\ run.audioTask = "done"
             /\ ~run.muxer[1].finalized)
    /\ [](pc = "flushVideo" =>
             /\ run.videoEncoder # "closed"
             /\ run.audioEncoder # "closed")
    /\ [](pc = "flushAudio" =>
             /\ run.videoEncoder = "closed"
             /\ run.videoPending = 0
             /\ AudioEncoderCreated(run)
             /\ run.audioEncoder # "closed")
    /\ []((run.muxer # <<>> /\ run.muxer[1].finalized) =>
             /\ status = "Conversion complete" => outputUrl # "null"
             /\ run.videoTask = "done"
             /\ run.audioTask = "done"
             /\ run.videoEncoder = "closed"
             /\ run.videoPending = 0
             /\ AudioEncoderCreated(run) =>
                   run.audioEncoder = "closed" /\ run.audioPending = 0
             /\ run.terminalWrites = 1)
    /\ [][/\ (run'.muxer # <<>> /\ run'.muxer[1].finalized
                  /\ ~(run.muxer # <<>> /\ run.muxer[1].finalized)) =>
                 /\ pc \in {"flushVideo", "flushAudio"}
                 /\ pc = "flushVideo" => ~AudioEncoderCreated(run)
                 /\ status' = "Conversion complete"
          /\ (run.muxer # <<>> /\ run.muxer[1].finalized /\ run'.muxer # <<>>) =>
                 run'.muxer = run.muxer]_vars

\* a run with both encoders has finalized a muxer holding chunks of both
C20_Witness ==
    /\ status = "Conversion complete"
    /\ run.muxer # <<>>
    /\ run.muxer[1].finalized
    /\ run.audioEncoder = "closed"
    /\ run.muxer[1].videoChunks > 1
    /\ run.muxer[1].audioChunks > 1

\* the run that created the muxer has failed and no new run has begun
FailedRun ==
    /\ ~isConverting
    /\ status = "Conversion failed"
    /\ run.muxer # <<>>

(* C21: once a run has failed its tasks are stopped: after the failure is
   shown, no further frame or sample is read, no further unit is submitted
   to an encoder, and no further chunk is added to the muxer. *)
C21_TasksStopOnFailure ==
    [][(FailedRun /\ FailedRun') =>
          /\ run'.videoFrameCount = run.videoFrameCount
          /\ run'.videoOpen = run.videoOpen
          /\ run'.audioOpen = run.audioOpen
          /\ run'.videoPending <= run.videoPending
          /\ run'.audioPending <= run.audioPending
          /\ run'.muxer = run.muxer]_vars

\* the step belongs to the encoding phase of one run
SameEncoding == run.muxer # <<>> /\ run'.muxer # <<>>

\* the step added a chunk to the muxer's track
ChunkAdded(track) ==
    /\ run.muxer # <<>>
    /\ run'.muxer # <<>>
    /\ run'.muxer[1][track] > run.muxer[1][track]

(* C22: every chunk added to the muxer for a track is paired with the most
   recently seen non-empty metadata of that track, which is the chunk's own
   metadata when it has one; no chunk is added without metadata, and a
   track's chunks never get the other track's metadata. *)
C22_ChunkPairedWithLatestMetadata ==
    [][/\ ChunkAdded("videoChunks") =>
              /\ run'.muxer[1].videoPaired # <<>>
              /\ run'.muxer[1].videoPaired[1].track = "video"
              /\ run'.muxer[1].videoPaired = run'.videoMeta
              /\ \A meta \in MetaOptions(VideoMetadata) :
                    videoOutputOf(meta) =>
                        run'.muxer[1].videoPaired =
                            IF meta # <<>> THEN meta ELSE run.videoMeta
       /\ ChunkAdded("audioChunks") =>
              /\ run'.muxer[1].audioPaired # <<>>
              /\ run'.muxer[1].audioPaired[1].track = "audio"
              /\ run'.muxer[1].audioPaired = run'.audioMeta
              /\ \A meta \in MetaOptions(AudioMetadata) :
                    audioOutputOf(meta) =>
                        run'.muxer[1].audioPaired =
                            IF meta # <<>> THEN meta ELSE run.audioMeta
       /\ (SameEncoding
              /\ run'.muxer[1].videoChunks = run.muxer[1].videoChunks) =>
              run'.muxer[1].videoPaired = run.muxer[1].videoPaired
       /\ (SameEncoding
              /\ run'.muxer[1].audioChunks = run.muxer[1].audioChunks) =>
              run'.muxer[1].audioPaired = run.muxer[1].audioPaired]_vars

\* the second video chunk came with new metadata and an audio chunk without
\* any reused the audio track's first
C22_Witness ==
    /\ run.muxer # <<>>
    /\ run.muxer[1].videoChunks = 2
    /\ run.muxer[1].videoPaired = <<[track |-> "video", config |-> "next"]>>
    /\ run.muxer[1].audioChunks = 2
    /\ run.muxer[1].audioPaired = <<[track |-> "audio", config |-> "first"]>>

(* C23: however the two tasks interleave, the units of each track are
   submitted to its encoder in the order they were read (their timestamps
   increase from one submission to the next), and a sample buffered for
   probing is, with audio enabled, the first audio unit submitted: it is
   submitted in the step that starts the audio task, before any read. *)
C23_SourceOrderPerTrack ==
    [][/\ (SameEncoding /\ run'.videoFrameCount = run.videoFrameCount + 1) =>
              /\ run'.videoLastTs > run.videoLastTs
              /\ run'.audioLastTs = run.audioLastTs
       /\ (SameEncoding /\ run'.audioPending = run.audioPending + 1) =>
              /\ run'.audioLastTs > run.audioLastTs
              /\ run'.videoLastTs = run.videoLastTs
       /\ (SameEncoding /\ run'.videoFrameCount = run.videoFrameCount
              /\ run'.audioPending <= run.audioPending) =>
              /\ run'.videoLastTs = run.videoLastTs
              /\ run'.audioLastTs = run.audioLastTs
       /\ (run.muxer = <<>> /\ run'.muxer # <<>>) =>
              /\ run'.videoLastTs = NULL
              /\ IF run.bufferedAudio # <<>> /\ run'.audioEncoder = "configured"
                 THEN /\ run'.bufferedAudio = <<>>
                      /\ run'.audioPending = 1
                      /\ run'.audioLastTs = run.bufferedAudio[1].timestamp
                 ELSE /\ run'.audioPending = 0
                      /\ run'.audioLastTs = NULL]_vars

\* both tasks have submitted the units of the last clock position, the
\* audio task after the buffered sample
C23_Witness ==
    /\ pc = "encoding"
    /\ run.videoFrameCount >= 2
    /\ run.videoLastTs = VideoTimestampUs(MaxTime)
    /\ run.audioLastTs = AudioTimestampUs(MaxTime)
    /\ run.audioPending + run.muxer[1].audioChunks >= 2

(* C24: an encoder's error callback firing during a run makes the run fail:
   the run never finalizes its muxer or ends with "Conversion complete",
   and when it ends it ends with "Conversion failed", an error shown and no
   output published. *)
C24_EncoderErrorFailsRun ==
    /\ []((isConverting /\ run.errorLogged) =>
             /\ ~run.muxer[1].finalized
             /\ status # "Conversion complete"
             /\ outputUrl = "null")
    /\ [][(isConverting /\ run.errorLogged /\ ~isConverting') =>
             /\ status' = "Conversion failed"
             /\ error' # "null"
             /\ outputUrl' = "null"
             /\ ~run'.muxer[1].finalized]_vars

\* an encoder failed after the last frame was submitted and the run ended
\* failed when its flush was rejected
C24_Witness ==
    /\ ~isConverting
    /\ run.errorLogged
    /\ status = "Conversion failed"
    /\ error = "flush failed"
    /\ run.videoFrameCount > 0
    /\ run.videoTask = "done"
    /\ run.audioTask = "done"

\* the source of the run in progress has signalled ended or error
SourceSignalled == isConverting /\ media.playback \in {"ended", "error"}

(* C25: when the source signals ended or error once at any time after the
   playback has started, also while the run is analyzing audio or
   negotiating codecs, the run reaches a terminal state in the end and
   isConverting returns to false. *)
C25_SignalledRunTerminates == SourceSignalled ~> ~isConverting

\* the run has returned: catch or the success path has written its status
RunEnded == ~isConverting /\ run.terminalWrites = 1

(* C26: a sample buffered for probing that gave valid attributes has been
   closed exactly once by the time the run ends, on every path: also when
   audio is disabled afterwards because the audio configuration is not
   supported, and when the video negotiation fails before the audio task
   starts. *)
C26_BufferedSampleReleased ==
    (RunEnded /\ AudioAttributesKnown(run.audioSampleRate, run.audioChannels)) =>
        /\ run.bufferedAudio = <<>>
        /\ run.audioOpen = 0

(* C27: whenever an output is published it was produced from the file that
   is selected: the output of a run is not published against a file picked,
   or a selection cleared, while that run was in progress. *)
C27_OutputOfSelectedFile == outputUrl # "null" => outputUrl = inputFile

===========================================================================
